---- MODULE Spec2Model ----
(***************************************************************************)
(* Model of the Purim Pictionary game server (server.js): one room of the  *)
(* registry, the sockets that talk to it, the countdown and hint           *)
(* intervals of the running turn and the deferred start-turn callbacks.    *)
(*                                                                         *)
(* Node runs every handler and every timer callback to completion, so each *)
(* handler is one action.  The JavaScript functions are operators on a     *)
(* "world" record w = [room, timeouts, out, turn, words]:                  *)
(*   room      the room object (fields as in createRoom)                   *)
(*   timeouts  the pending setTimeout callbacks (a bag, by kind)           *)
(*   out       the messages the handler emits (empty when it starts)      *)
(*   turn      what the closures of the live intervals captured           *)
(*   words     the words handed out since the last accepted start_game    *)
(***************************************************************************)
EXTENDS Integers, Sequences, FiniteSets, TLC

\* ---------------------------------------------------------------- bounds
NumSockets == 3
NumWords == 2
MaxTimeouts == 1
MaxScore == 350
NumLobbySockets == 11
NumScoreSockets == 4
NumHintSockets == 2

\* ------------------------------------------------------------- constants
MaxPlayers == 10
DefaultRounds == 10
DefaultTime == 40
MinRounds == 3
MaxRounds == 30
MinTime == 15
MaxTime == 90
FirstTurnDelay == 2000
ShortDelay == 3000
LongDelay == 5000

Undefined == 0
RoomCode == "ABCD"
OtherCode == "ZZZZ"

\* Words of WORD_LIST, as character sequences ("King", "Calculator",
\* "US Flag", "Queen").
WORD_LIST ==
  << <<"K","i","n","g">>,
     <<"C","a","l","c","u","l","a","t","o","r">>,
     <<"U","S"," ","F","l","a","g">>,
     <<"Q","u","e","e","n">> >>

Catalog == { WORD_LIST[i] : i \in 1..NumWords }

\* ---------------------------------------------------------------- helpers
Min(a, b) == IF a < b THEN a ELSE b
Max(a, b) == IF a > b THEN a ELSE b

\* JavaScript a || b on numbers (0 and undefined are both falsy)
OrElse(a, b) == IF a # 0 THEN a ELSE b

\* Math.floor(num / den) and Math.round(num / den) for den > 0
Floor(num, den) == num \div den
Round(num, den) == (2 * num + den) \div (2 * den)

\* array[i] with a JavaScript (0-based) index; undefined outside the array
At(arr, i) == IF i + 1 \in 1..Len(arr) THEN arr[i + 1] ELSE Undefined

\* Map operations on room.players, a Map kept here as the sequence of its
\* entries [id, score] in insertion order
Keys(m) == [i \in 1..Len(m) |-> m[i].id]
KeySet(m) == { m[i].id : i \in 1..Len(m) }
Has(m, id) == id \in KeySet(m)
MapSet(m, id, sc) ==
  IF Has(m, id)
  THEN [i \in 1..Len(m) |-> IF m[i].id = id THEN [id |-> id, score |-> sc] ELSE m[i]]
  ELSE Append(m, [id |-> id, score |-> sc])
MapDelete(m, id) == SelectSeq(m, LAMBDA p : p.id # id)
ScoreOf(m, id) == LET i == CHOOSE j \in 1..Len(m) : m[j].id = id IN m[i].score
AddScore(m, id, pts) ==
  [i \in 1..Len(m) |-> IF m[i].id = id THEN [m[i] EXCEPT !.score = @ + pts] ELSE m[i]]

Range(seq) == { seq[i] : i \in 1..Len(seq) }
Perms(S) == { p \in [1..Cardinality(S) -> S] : Range(p) = S }

Emit(w, msg) == [w EXCEPT !.out = Append(@, msg)]

TimeoutKinds == {"first", "next3", "next5"}
NoTimeouts == [k \in TimeoutKinds |-> 0]
Pending(t) == t["first"] + t["next3"] + t["next5"]
SetTimeout(w, kind) == [w EXCEPT !.timeouts[kind] = @ + 1]
DelayOf(kind) == IF kind = "first" THEN FirstTurnDelay
                 ELSE IF kind = "next3" THEN ShortDelay ELSE LongDelay

\* ------------------------------------------------------------------ state
VARIABLES rooms, room, sock, timeouts, turn, words
vars == <<rooms, room, sock, timeouts, turn, words>>

Sockets == 1..NumSockets

\* a socket's closure variables when it connects, and once it is gone
Fresh == [connected |-> TRUE, currentRoom |-> "", isSpectator |-> FALSE]
Gone == [connected |-> FALSE, currentRoom |-> "", isSpectator |-> FALSE]

\* what the model keeps of a turn beside the room object: the constants of
\* startTurn's closure (hintTimes, drawerId), the length the turn began with
\* (the value timeRemaining counts down from), and whether the hint callback
\* of the current second is still to run
\* lostTimers and lostHints count the live intervals whose handle is no
\* longer in room.timer / room.hintInterval (setInterval over a handle that
\* was not cleared); such an interval can never be cleared.
NoTurn ==
  [hintTimes |-> <<>>, drawerId |-> Undefined, timePerTurn |-> 0, hintPending |-> FALSE,
   lostTimers |-> 0, lostHints |-> 0]

\* ClearIntervals with the second clearInterval left out
ClearTimerOnly(w) == [w EXCEPT !.room.timer = FALSE]

\* clearInterval(room.timer); clearInterval(room.hintInterval): room.timer and
\* room.hintInterval say whether the handle kept there is of a live interval
ClearIntervals(w) == [w EXCEPT !.room.timer = FALSE, !.room.hintInterval = FALSE]

\* room.timer = setInterval(...); room.hintInterval = setInterval(...)
SetIntervals(w) ==
  [w EXCEPT !.turn.lostTimers = @ + (IF w.room.timer THEN 1 ELSE 0),
            !.turn.lostHints = @ + (IF w.room.hintInterval THEN 1 ELSE 0),
            !.room.timer = TRUE,
            !.room.hintInterval = TRUE]

\* the object createRoom builds
NewRoom(code, hostId, totalRounds, timePerTurn) ==
  [ code |-> code,
    hostId |-> hostId,
    players |-> <<>>,
    state |-> "lobby",
    currentDrawerIndex |-> -1,
    currentWord |-> <<>>,
    roundNumber |-> 0,
    totalRounds |-> OrElse(totalRounds, DefaultRounds),
    timePerTurn |-> OrElse(timePerTurn, DefaultTime),
    timer |-> FALSE,
    timeRemaining |-> 0,
    usedWords |-> {},
    correctGuessers |-> {},
    turnActive |-> FALSE,
    playerOrder |-> <<>>,
    spectators |-> {},
    hintsRevealed |-> 0,
    hintInterval |-> FALSE ]

World == [room |-> room, timeouts |-> timeouts, out |-> <<>>, turn |-> turn, words |-> words]

Commit(w) ==
  /\ room' = w.room
  /\ timeouts' = w.timeouts
  /\ turn' = w.turn
  /\ words' = w.words

Registered == room.code \in rooms

InitWith(S) ==
  /\ rooms = {}
  /\ room = NewRoom("", Undefined, 0, 0)
  /\ sock = [s \in S |-> Fresh]
  /\ timeouts = NoTimeouts
  /\ turn = NoTurn
  /\ words = {}

Init == InitWith(Sockets)

\* ------------------------------------------------------------- word bank
\* getRandomWord: `pick` is the word Math.random selects; PickOk says which
\* picks the code can make from this room
Available(r) == { wd \in Catalog : wd \notin r.usedWords }
PickOk(r, pick) == pick \in (IF Available(r) = {} THEN Catalog ELSE Available(r))
GetRandomWord(r, pick) ==
  IF Available(r) = {}
  THEN [room |-> [r EXCEPT !.usedWords = {}], word |-> pick]
  ELSE [room |-> [r EXCEPT !.usedWords = @ \cup {pick}], word |-> pick]

\* getPlayerList(room)[0]: the first player of the highest score (the sort
\* is stable, so ties keep the Map's order); null (Undefined) without players
Winner(r) ==
  IF Len(r.players) = 0 THEN Undefined
  ELSE LET best == CHOOSE i \in 1..Len(r.players) :
                     /\ \A j \in 1..Len(r.players) : r.players[j].score <= r.players[i].score
                     /\ \A j \in 1..(i - 1) : r.players[j].score < r.players[i].score
       IN r.players[best].id

\* --------------------------------------------------------------- scoring
\* The inputs (timePerTurn, timeRemaining, guessOrder), 1 <= timePerTurn <= 90
\* and 0 <= timeRemaining <= 90, at which (200 + 300 * timeRatio) * orderBonus
\* is exactly k + 1/2 in the rationals while its IEEE-754 double value (the
\* doubles 1 - 1 * 0.15, 1 - 2 * 0.15 and 1 - 5 * 0.15 times the double of
\* 200 + 300 * timeRatio) is below k + 1/2, so that Math.round returns k.
\* At every other input of that range Math.round of the double expression
\* equals the rounding (half up) of the exact value, for the guesser and for
\* the drawer.
DoubleBelowHalf ==
  { <<4,7,3>>, <<4,15,3>>, <<4,33,3>>, <<4,35,3>>, <<4,67,3>>, <<4,69,3>>,
    <<4,71,3>>, <<4,73,3>>, <<4,75,3>>, <<8,14,3>>, <<8,30,3>>, <<8,66,3>>,
    <<8,70,3>>, <<12,5,3>>, <<12,19,3>>, <<12,21,3>>, <<12,45,3>>,
    <<12,47,3>>, <<12,49,3>>, <<16,28,3>>, <<16,60,3>>, <<20,9,3>>,
    <<20,11,3>>, <<20,31,3>>, <<20,33,3>>, <<20,35,3>>, <<20,73,3>>,
    <<20,75,3>>, <<20,77,3>>, <<20,79,3>>, <<20,81,3>>, <<20,83,3>>,
    <<24,10,3>>, <<24,38,3>>, <<24,42,3>>, <<24,90,3>>, <<28,5,3>>,
    <<28,13,3>>, <<28,17,3>>, <<28,19,3>>, <<28,31,3>>, <<28,33,3>>,
    <<28,41,3>>, <<28,45,3>>, <<28,47,3>>, <<28,49,3>>, <<28,55,3>>,
    <<28,57,3>>, <<28,59,3>>, <<28,71,3>>, <<28,73,3>>, <<28,83,3>>,
    <<28,87,3>>, <<28,89,3>>, <<30,73,2>>, <<30,73,6>>, <<32,56,3>>,
    <<34,7,2>>, <<34,9,2>>, <<34,31,2>>, <<34,39,2>>, <<34,43,2>>,
    <<34,45,2>>, <<34,69,2>>, <<36,15,3>>, <<36,57,3>>, <<36,63,3>>,
    <<40,18,3>>, <<40,22,3>>, <<40,62,3>>, <<40,66,3>>, <<40,70,3>>,
    <<44,77,3>>, <<48,20,3>>, <<48,76,3>>, <<48,84,3>>, <<56,10,3>>,
    <<56,26,3>>, <<56,34,3>>, <<56,38,3>>, <<56,62,3>>, <<56,66,3>>,
    <<56,82,3>>, <<56,90,3>>, <<60,25,3>>, <<60,27,3>>, <<60,29,3>>,
    <<60,31,3>>, <<60,33,3>>, <<60,89,3>>, <<68,14,2>>, <<68,18,2>>,
    <<68,62,2>>, <<68,78,2>>, <<68,86,2>>, <<68,90,2>>, <<72,30,3>>,
    <<80,36,3>>, <<80,44,3>>, <<84,11,3>>, <<84,15,3>>, <<84,25,3>>,
    <<84,29,3>>, <<84,35,3>>, <<84,37,3>>, <<84,39,3>>, <<84,43,3>>,
    <<84,51,3>>, <<84,57,3>>, <<84,59,3>>, <<84,65,3>>, <<84,71,3>>,
    <<84,85,3>> }

\* orderBonus * 100 = Math.max(0, 1 - (guessOrder - 1) * 0.15) * 100
OrderBonus100(guessOrder) == Max(0, 100 - (guessOrder - 1) * 15)

\* Math.round((200 + 300 * timeRatio) * orderBonus), timeRatio = tr / tpt
GuesserPoints(tr, tpt, guessOrder) ==
  LET exact == Round((200 * tpt + 300 * tr) * OrderBonus100(guessOrder), 100 * tpt)
  IN IF <<tpt, tr, guessOrder>> \in DoubleBelowHalf THEN exact - 1 ELSE exact

\* Math.round(50 + 100 * timeRatio)
DrawerPoints(tr, tpt) == Round(50 * tpt + 100 * tr, tpt)

\* ------------------------------------------------------------------ turns
\* generateHint: one token per character of the word (the code joins the
\* tokens with single spaces)
GenerateHint(word, revealCount) ==
  [i \in 1..Len(word) |->
     IF word[i] = " " THEN "  "
     ELSE IF i - 1 < revealCount THEN word[i]
     ELSE "_"]

\* room.currentWord.replace(/ /g, '').length
WordLen(word) == Len(SelectSeq(word, LAMBDA ch : ch # " "))

\* HintTimes with the second tier placed at 75% before the deadline
HintTimesSwapped(word, tpt) ==
  (IF WordLen(word) > 3 THEN <<Floor(tpt, 2)>> ELSE <<>>)
  \o (IF WordLen(word) > 5 THEN <<Floor(3 * tpt, 4)>> ELSE <<>>)

\* the hintTimes array startTurn builds (seconds before the deadline)
HintTimes(word, tpt) ==
  (IF WordLen(word) > 3 THEN <<Floor(tpt, 2)>> ELSE <<>>)
  \o (IF WordLen(word) > 5 THEN <<Floor(tpt, 4)>> ELSE <<>>)

\* hintTimes.filter(t => (room.timePerTurn - t) <= elapsed).length
ShouldReveal(hintTimes, tpt, elapsed) ==
  Cardinality({ i \in 1..Len(hintTimes) : (tpt - hintTimes[i]) <= elapsed })

EndGame(w) ==
  LET w1 == ClearIntervals([w EXCEPT !.room.state = "finished"])
  IN Emit([w1 EXCEPT !.turn.hintPending = FALSE],
          [event |-> "game_over", winner |-> Winner(w1.room)])

\* the part of startTurn after the drawer is resolved (lines 127-196)
BeginTurn(w, drawerId, pick) ==
  LET gw == GetRandomWord(w.room, pick)
      r == [gw.room EXCEPT !.currentWord = gw.word,
                           !.correctGuessers = {},
                           !.turnActive = TRUE,
                           !.timeRemaining = w.room.timePerTurn,
                           !.hintsRevealed = 0,
                           !.state = "playing"]
      started == [event |-> "turn_start", drawer |-> drawerId,
                  hint |-> GenerateHint(gw.word, 0), roundNumber |-> r.roundNumber]
      secret == [event |-> "your_word", to |-> drawerId, word |-> gw.word]
      w1 == [w EXCEPT !.room = r,
                      !.out = @ \o <<started, secret>>,
                      !.turn = [@ EXCEPT !.hintTimes = HintTimes(gw.word, r.timePerTurn),
                                         !.drawerId = drawerId,
                                         !.timePerTurn = r.timePerTurn,
                                         !.hintPending = FALSE],
                      !.words = @ \cup {gw.word}]
  IN SetIntervals(ClearIntervals(w1))

\* StartTurn without the test that the drawer is in room.players
StartTurnAnyDrawer(w, pick) ==
  LET next == w.room.currentDrawerIndex + 1
      idx == IF next >= Len(w.room.playerOrder) THEN 0 ELSE next
      r == [w.room EXCEPT !.currentDrawerIndex = idx, !.roundNumber = @ + 1]
      w1 == [w EXCEPT !.room = r]
  IN IF r.roundNumber > r.totalRounds THEN EndGame(w1)
     ELSE BeginTurn(w1, At(r.playerOrder, idx), pick)

RECURSIVE StartTurn(_, _)
StartTurn(w, pick) ==
  LET next == w.room.currentDrawerIndex + 1
      idx == IF next >= Len(w.room.playerOrder) THEN 0 ELSE next
      r == [w.room EXCEPT !.currentDrawerIndex = idx, !.roundNumber = @ + 1]
      w1 == [w EXCEPT !.room = r]
      drawerId == At(r.playerOrder, idx)
  IN IF r.roundNumber > r.totalRounds THEN EndGame(w1)
     ELSE IF ~Has(r.players, drawerId)
          THEN (IF r.roundNumber <= r.totalRounds THEN StartTurn(w1, pick) ELSE w1)
          ELSE BeginTurn(w1, drawerId, pick)

\* Array.from(room.players.keys()).filter(id => id !== drawerId).length
NonDrawerCount(r, drawerId) == Cardinality(KeySet(r.players) \ {drawerId})

EndTurn(w, wasGuessed) ==
  LET w0 == ClearIntervals([w EXCEPT !.room.turnActive = FALSE])
      r == w0.room
      drawerId == At(r.playerOrder, r.currentDrawerIndex)
      allGuessed == Cardinality(r.correctGuessers) >= NonDrawerCount(r, drawerId)
      kind == IF allGuessed \/ ~wasGuessed THEN "next3" ELSE "next5"
      ended == [event |-> "turn_end", word |-> r.currentWord, wasGuessed |-> wasGuessed]
  IN SetTimeout(Emit([w0 EXCEPT !.turn.hintPending = FALSE], ended), kind)

\* ---------------------------------------------------------------- guesses
UpperToLower ==
  ("K" :> "k") @@ ("C" :> "c") @@ ("U" :> "u") @@ ("S" :> "s") @@ ("F" :> "f")
  @@ ("Q" :> "q") @@ ("I" :> "i") @@ ("N" :> "n") @@ ("G" :> "g")
ToLowerCase(str) ==
  [i \in 1..Len(str) |-> IF str[i] \in DOMAIN UpperToLower THEN UpperToLower[str[i]] ELSE str[i]]
RECURSIVE TrimStart(_)
TrimStart(str) == IF str # <<>> /\ Head(str) = " " THEN TrimStart(Tail(str)) ELSE str
RECURSIVE TrimEnd(_)
TrimEnd(str) ==
  IF str # <<>> /\ str[Len(str)] = " " THEN TrimEnd(SubSeq(str, 1, Len(str) - 1)) ELSE str
Trim(str) == TrimEnd(TrimStart(str))
Normalize(str) == ToLowerCase(Trim(str))
\* hay.includes(needle)
Includes(hay, needle) ==
  \E i \in 0..(Len(hay) - Len(needle)) : SubSeq(hay, i + 1, i + Len(needle)) = needle

HandleGuess(w, playerId, guess) ==
  LET r == w.room
      drawerId == At(r.playerOrder, r.currentDrawerIndex)
      normalizedGuess == Normalize(guess)
      normalizedWord == Normalize(r.currentWord)
  IN IF ~r.turnActive THEN w
     ELSE IF playerId = drawerId THEN w
     ELSE IF playerId \in r.correctGuessers THEN w
     ELSE IF ~Has(r.players, playerId) THEN w
     ELSE IF normalizedGuess = normalizedWord
     THEN LET guessers == r.correctGuessers \cup {playerId}
              guessOrder == Cardinality(guessers)
              guesserPoints == GuesserPoints(r.timeRemaining, r.timePerTurn, guessOrder)
              drawerPoints == DrawerPoints(r.timeRemaining, r.timePerTurn)
              scored == AddScore(r.players, playerId, guesserPoints)
              paid == IF Has(scored, drawerId) THEN AddScore(scored, drawerId, drawerPoints)
                      ELSE scored
              r1 == [r EXCEPT !.correctGuessers = guessers, !.players = paid]
              w1 == [w EXCEPT !.room = r1,
                              !.out = @ \o << [event |-> "correct_guess", playerId |-> playerId,
                                               points |-> guesserPoints,
                                               drawerPoints |-> drawerPoints],
                                              [event |-> "you_guessed_correctly",
                                               to |-> playerId, word |-> r.currentWord] >>]
          IN IF Cardinality(guessers) >= NonDrawerCount(r1, drawerId)
             THEN EndTurn(w1, TRUE)
             ELSE w1
     ELSE LET isClose == \/ (Includes(normalizedWord, normalizedGuess) /\ Len(normalizedGuess) >= 3)
                         \/ Includes(normalizedGuess, normalizedWord)
          IN Emit(w, [event |-> "chat_message", playerId |-> playerId, message |-> guess,
                      isClose |-> (isClose /\ normalizedGuess # normalizedWord)])

\* -------------------------------------------------------- socket handlers
\* Each handler is (the world after it, the socket's closure variables
\* currentRoom and isSpectator after it, the registry after it).
Result(w, s, reg) == [w |-> w, s |-> s, rooms |-> reg]

OnCreateRoom(w, me, id, reg, totalRounds, timePerTurn) ==
  LET built == NewRoom(RoomCode, id, OrElse(totalRounds, DefaultRounds),
                       OrElse(timePerTurn, DefaultTime))
      r == [built EXCEPT !.players = MapSet(@, id, 0)]
  IN Result(Emit([w EXCEPT !.room = r], [event |-> "room_created", to |-> id]),
            [me EXCEPT !.currentRoom = RoomCode],
            reg \cup {RoomCode})

\* OnJoinRoom with the capacity test written > instead of >=
OnJoinRoomOffByOne(w, me, id, reg, code, asSpectator) ==
  LET r == w.room
  IN IF code \notin reg
     THEN Result(Emit(w, [event |-> "error_message", to |-> id, message |-> "Room not found"]),
                 me, reg)
     ELSE IF asSpectator
     THEN Result([w EXCEPT !.room.spectators = @ \cup {id},
                           !.out = @ \o << [event |-> "joined_as_spectator", to |-> id,
                                            state |-> r.state],
                                           [event |-> "spectator_joined", id |-> id] >>],
                 [me EXCEPT !.currentRoom = code, !.isSpectator = TRUE],
                 reg)
     ELSE IF r.state # "lobby"
     THEN Result(Emit(w, [event |-> "error_message", to |-> id,
                          message |-> "Game already in progress"]),
                 me, reg)
     ELSE IF Len(r.players) > MaxPlayers
     THEN Result(Emit(w, [event |-> "error_message", to |-> id, message |-> "Room is full"]),
                 me, reg)
     ELSE Result([w EXCEPT !.room.players = MapSet(@, id, 0),
                           !.out = @ \o << [event |-> "room_joined", to |-> id],
                                           [event |-> "player_joined", id |-> id] >>],
                 [me EXCEPT !.currentRoom = code],
                 reg)

OnJoinRoom(w, me, id, reg, code, asSpectator) ==
  LET r == w.room
  IN IF code \notin reg
     THEN Result(Emit(w, [event |-> "error_message", to |-> id, message |-> "Room not found"]),
                 me, reg)
     ELSE IF asSpectator
     THEN Result([w EXCEPT !.room.spectators = @ \cup {id},
                           !.out = @ \o << [event |-> "joined_as_spectator", to |-> id,
                                            state |-> r.state],
                                           [event |-> "spectator_joined", id |-> id] >>],
                 [me EXCEPT !.currentRoom = code, !.isSpectator = TRUE],
                 reg)
     ELSE IF r.state # "lobby"
     THEN Result(Emit(w, [event |-> "error_message", to |-> id,
                          message |-> "Game already in progress"]),
                 me, reg)
     ELSE IF Len(r.players) >= MaxPlayers
     THEN Result(Emit(w, [event |-> "error_message", to |-> id, message |-> "Room is full"]),
                 me, reg)
     ELSE Result([w EXCEPT !.room.players = MapSet(@, id, 0),
                           !.out = @ \o << [event |-> "room_joined", to |-> id],
                                           [event |-> "player_joined", id |-> id] >>],
                 [me EXCEPT !.currentRoom = code],
                 reg)

\* Math.min(Math.max(parseInt(x) || dflt, lo), hi), x an integer
Clamp(x, dflt, lo, hi) == Min(Max(OrElse(x, dflt), lo), hi)

\* `order` is what the shuffle leaves in room.playerOrder
OnStartGame(w, me, id, reg, totalRounds, timePerTurn, order) ==
  LET r == w.room
  IN IF me.currentRoom = "" THEN Result(w, me, reg)
     ELSE IF me.currentRoom \notin reg \/ id # r.hostId THEN Result(w, me, reg)
     ELSE IF Len(r.players) < 2
     THEN Result(Emit(w, [event |-> "error_message", to |-> id,
                          message |-> "Need at least 2 players"]),
                 me, reg)
     ELSE LET r1 == [r EXCEPT
                       !.totalRounds = IF totalRounds # 0
                                       THEN Clamp(totalRounds, DefaultRounds, MinRounds, MaxRounds)
                                       ELSE @,
                       !.timePerTurn = IF timePerTurn # 0
                                       THEN Clamp(timePerTurn, DefaultTime, MinTime, MaxTime)
                                       ELSE @,
                       !.state = "playing",
                       !.playerOrder = order,
                       !.currentDrawerIndex = -1,
                       !.roundNumber = 0]
              w1 == Emit([w EXCEPT !.room = r1, !.words = {}],
                         [event |-> "game_started", totalRounds |-> r1.totalRounds])
          IN Result(SetTimeout(w1, "first"), me, reg)

OnGuess(w, me, id, reg, message) ==
  IF me.currentRoom = "" THEN Result(w, me, reg)
  ELSE IF me.currentRoom \notin reg THEN Result(w, me, reg)
  ELSE Result(HandleGuess(w, id, message), me, reg)

OnSkipWord(w, me, id, reg) ==
  IF me.currentRoom = "" THEN Result(w, me, reg)
  ELSE IF me.currentRoom \notin reg \/ ~w.room.turnActive THEN Result(w, me, reg)
  ELSE IF id # At(w.room.playerOrder, w.room.currentDrawerIndex) THEN Result(w, me, reg)
  ELSE Result(EndTurn(w, FALSE), me, reg)

OnDisconnect(w, me, id, reg) ==
  IF me.currentRoom = "" THEN Result(w, me, reg)
  ELSE IF me.currentRoom \notin reg THEN Result(w, me, reg)
  ELSE IF me.isSpectator
  THEN Result(Emit([w EXCEPT !.room.spectators = @ \ {id}], [event |-> "spectator_left", id |-> id]),
              me, reg)
  ELSE IF ~Has(w.room.players, id) THEN Result(w, me, reg)
  ELSE LET \* lines 498-504
           r1 == [w.room EXCEPT !.players = MapDelete(@, id),
                                !.playerOrder = SelectSeq(@, LAMBDA p : p # id)]
           w1 == Emit([w EXCEPT !.room = r1], [event |-> "player_left", id |-> id])
           \* lines 506-509
           w2 == IF r1.turnActive /\ At(r1.playerOrder, r1.currentDrawerIndex) = id
                 THEN EndTurn(w1, FALSE) ELSE w1
           \* lines 511-514
           w3 == IF w2.room.state = "playing" /\ Len(w2.room.players) < 2
                 THEN EndGame(w2) ELSE w2
           \* lines 516-521
           empty == Len(w3.room.players) = 0 /\ w3.room.spectators = {}
           w4 == IF empty
                 THEN [ClearIntervals(w3) EXCEPT !.turn.hintPending = FALSE]
                 ELSE w3
           reg1 == IF empty THEN reg \ {me.currentRoom} ELSE reg
           \* lines 523-527
           w5 == IF id = w4.room.hostId /\ Len(w4.room.players) > 0
                 THEN Emit([w4 EXCEPT !.room.hostId = w4.room.players[1].id],
                           [event |-> "new_host", hostId |-> w4.room.players[1].id])
                 ELSE w4
       IN Result(w5, me, reg1)

\* the countdown interval's callback (lines 164-173)
OnTick(w) ==
  LET r == [w.room EXCEPT !.timeRemaining = @ - 1]
      w1 == Emit([w EXCEPT !.room = r], [event |-> "timer_update", timeRemaining |-> r.timeRemaining])
  IN IF r.timeRemaining <= 0 THEN EndTurn(w1, FALSE) ELSE w1

\* the hint interval's callback (lines 181-196)
OnHintCheck(w) ==
  LET r == w.room
      elapsed == r.timePerTurn - r.timeRemaining
      shouldReveal == ShouldReveal(w.turn.hintTimes, r.timePerTurn, elapsed)
  IN IF ~r.turnActive THEN w
     ELSE IF shouldReveal > r.hintsRevealed
     THEN Emit([w EXCEPT !.room.hintsRevealed = shouldReveal],
               [event |-> "hint_update",
                to |-> (KeySet(r.players) \ ({w.turn.drawerId} \cup r.correctGuessers))
                       \cup r.spectators,
                hint |-> GenerateHint(r.currentWord, shouldReveal)])
     ELSE w

\* the callbacks given to setTimeout (line 442 and lines 226-230)
OnTimeout(w, kind, pick) ==
  IF kind = "first" THEN StartTurn(w, pick)
  ELSE IF w.room.state # "finished" /\ w.room.state # "lobby" THEN StartTurn(w, pick)
  ELSE w

\* ---------------------------------------------------------------- actions
WithinBounds(w) ==
  /\ Pending(w.timeouts) <= MaxTimeouts
  /\ \A i \in 1..Len(w.room.players) : w.room.players[i].score <= MaxScore

Handled(s, res) ==
  /\ WithinBounds(res.w)
  /\ Commit(res.w)
  /\ rooms' = res.rooms
  /\ sock' = [sock EXCEPT ![s] = res.s]

\* The model follows one room: create_room is taken once, while no room
\* object exists (room.code is empty).
CreateRoom(s, totalRounds, timePerTurn) ==
  /\ sock[s].connected
  /\ room.code = ""
  /\ Handled(s, OnCreateRoom(World, sock[s], s, rooms, totalRounds, timePerTurn))

JoinRoom(s, code, asSpectator) ==
  /\ sock[s].connected
  /\ Handled(s, OnJoinRoom(World, sock[s], s, rooms, code, asSpectator))

StartGame(s, totalRounds, timePerTurn, order) ==
  /\ sock[s].connected
  /\ Handled(s, OnStartGame(World, sock[s], s, rooms, totalRounds, timePerTurn, order))

Guess(s, message) ==
  /\ sock[s].connected
  /\ Handled(s, OnGuess(World, sock[s], s, rooms, message))

SkipWord(s) ==
  /\ sock[s].connected
  /\ Handled(s, OnSkipWord(World, sock[s], s, rooms))

Disconnect(s) ==
  /\ sock[s].connected
  /\ LET res == OnDisconnect(World, sock[s], s, rooms)
     IN Handled(s, [res EXCEPT !.s = Gone])

\* startTurn creates the two intervals together and with the same period, so
\* every second the countdown callback runs and then the hint callback:
\* turn.hintPending says that the hint callback of this second is still to run.
Tick ==
  /\ room.timer \/ turn.lostTimers > 0
  /\ ~turn.hintPending
  /\ LET w == OnTick(World)
     IN /\ WithinBounds(w)
        /\ Commit([w EXCEPT !.turn.hintPending = w.room.hintInterval \/ w.turn.lostHints > 0])
  /\ UNCHANGED <<rooms, sock>>

HintCheck ==
  /\ room.hintInterval \/ turn.lostHints > 0
  /\ turn.hintPending
  /\ Commit([OnHintCheck(World) EXCEPT !.turn.hintPending = FALSE])
  /\ UNCHANGED <<rooms, sock>>

TimeoutFires(kind, pick) ==
  /\ timeouts[kind] > 0
  /\ PickOk(room, pick)
  /\ LET w == OnTimeout([World EXCEPT !.timeouts[kind] = @ - 1], kind, pick)
     IN WithinBounds(w) /\ Commit(w)
  /\ UNCHANGED <<rooms, sock>>

\* the orders a shuffle of the current players can produce
Shuffles == Perms(KeySet(room.players))

\* ---------------------------------------------------------- specification
\* The sockets connect in the order of their ids: s sends its first
\* create_room or join_room when every socket below it has joined or left.
Turn(s) == \A u \in 1..(s - 1) : sock[u] # Fresh

\* Spec: three sockets that join as players, the whole game.
CreateRounds == {2}
CreateTimes == {2}
StartRounds == {0}
StartTimes == {0}
GuessTexts == Catalog \cup { <<" ", "k", "I", "N", "G", " ">>, <<"k", "i", "n">> }

Next ==
  \/ \E n \in CreateRounds, t \in CreateTimes : CreateRoom(1, n, t)
  \/ \E s \in Sockets, code \in {RoomCode, OtherCode} :
       Turn(s) /\ sock[s] = Fresh /\ JoinRoom(s, code, FALSE)
  \/ \E s \in Sockets, n \in StartRounds, t \in StartTimes, order \in Shuffles :
       StartGame(s, n, t, order)
  \/ \E s \in Sockets, message \in GuessTexts : Guess(s, message)
  \/ \E s \in Sockets : SkipWord(s)
  \/ \E s \in Sockets : Disconnect(s)
  \/ Tick
  \/ HintCheck
  \/ \E kind \in TimeoutKinds, pick \in Catalog : TimeoutFires(kind, pick)

Spec == Init /\ [][Next]_vars

\* SpecRoster: players and spectators come and go; no guesses, no clock.
NextRoster ==
  \/ \E n \in CreateRounds, t \in CreateTimes : CreateRoom(1, n, t)
  \/ \E s \in Sockets, asSpectator \in BOOLEAN :
       Turn(s) /\ JoinRoom(s, RoomCode, asSpectator)
  \/ \E s \in Sockets, order \in Shuffles : StartGame(s, 0, 0, order)
  \/ \E s \in Sockets : SkipWord(s)
  \/ \E s \in Sockets : Disconnect(s)
  \/ \E kind \in TimeoutKinds, pick \in Catalog : TimeoutFires(kind, pick)

SpecRoster == Init /\ [][NextRoster]_vars

\* SpecLobby: enough sockets to fill a room.
LobbySockets == 1..NumLobbySockets

NextLobby ==
  \/ CreateRoom(1, 0, 0)
  \/ \E s \in LobbySockets, code \in {RoomCode, OtherCode} :
       Turn(s) /\ sock[s] = Fresh /\ JoinRoom(s, code, FALSE)
  \/ \E s \in LobbySockets : StartGame(s, 0, 0, Keys(room.players))
  \/ \E s \in LobbySockets : Disconnect(s)
  \/ \E kind \in TimeoutKinds : TimeoutFires(kind, WORD_LIST[1])

SpecLobby == InitWith(LobbySockets) /\ [][NextLobby]_vars

\* SpecHint: games of the default and of an odd turn length, second by
\* second; the drawer may skip and the host may start again at any time,
\* with or without a new turn length. The shuffle of lines 423-426 is taken to
\* leave the joining order: who draws has no part in the hint schedule.
HintSockets == 1..NumHintSockets
HintTurnTimes == {7, 40}
HintStartTimes == {0, 15}

NextHint ==
  \/ \E t \in HintTurnTimes : CreateRoom(1, 1, t)
  \/ \E s \in HintSockets : Turn(s) /\ sock[s] = Fresh /\ JoinRoom(s, RoomCode, FALSE)
  \/ \E s \in HintSockets, t \in HintStartTimes :
       StartGame(s, 0, t, Keys(room.players))
  \/ \E s \in HintSockets : SkipWord(s)
  \/ Tick
  \/ HintCheck
  \/ \E kind \in TimeoutKinds, pick \in Catalog : TimeoutFires(kind, pick)

SpecHint == InitWith(HintSockets) /\ [][NextHint]_vars

\* SpecScore: one turn of the default 40 seconds with three guessers.
ScoreSockets == 1..NumScoreSockets
ScoreTurnTimes == {40}

NextScore ==
  \/ \E t \in ScoreTurnTimes : CreateRoom(1, 1, t)
  \/ \E s \in ScoreSockets : Turn(s) /\ sock[s] = Fresh /\ JoinRoom(s, RoomCode, FALSE)
  \/ room.state = "lobby" /\ StartGame(1, 0, 0, Keys(room.players))
  \/ \E s \in ScoreSockets : Guess(s, room.currentWord)
  \/ Tick
  \/ HintCheck
  \/ \E kind \in TimeoutKinds : TimeoutFires(kind, WORD_LIST[1])

SpecScore == InitWith(ScoreSockets) /\ [][NextScore]_vars

\* SpecWatch: sockets join as players, as spectators, or as one and then the
\* other (join_room does not look at what the socket has joined before);
\* one game with guesses, second by second.
NextWatch ==
  \/ CreateRoom(1, 2, 2)
  \/ \E s \in Sockets, asSpectator \in BOOLEAN :
       Turn(s) /\ JoinRoom(s, RoomCode, asSpectator)
  \/ \E s \in Sockets : room.state = "lobby" /\ StartGame(s, 0, 0, Keys(room.players))
  \/ \E s \in Sockets, message \in GuessTexts : Guess(s, message)
  \/ \E s \in Sockets : Disconnect(s)
  \/ Tick
  \/ HintCheck
  \/ \E kind \in TimeoutKinds, pick \in Catalog : TimeoutFires(kind, pick)

SpecWatch == Init /\ [][NextWatch]_vars

\* SpecRetime: the first turn of a game of 40-second turns, in which the
\* host may send start_game again at any time with a new turn length;
\* correct guesses.
NextRetime ==
  \/ \E t \in ScoreTurnTimes : CreateRoom(1, 1, t)
  \/ \E s \in HintSockets : Turn(s) /\ sock[s] = Fresh /\ JoinRoom(s, RoomCode, FALSE)
  \/ \E s \in HintSockets, t \in HintStartTimes : StartGame(s, 0, t, Keys(room.players))
  \/ \E s \in HintSockets : Guess(s, room.currentWord)
  \/ Tick
  \/ HintCheck
  \/ \E kind \in TimeoutKinds : TimeoutFires(kind, WORD_LIST[1])

SpecRetime == InitWith(HintSockets) /\ [][NextRetime]_vars

\* SpecDrop: one game of four players with correct guesses, second by
\* second, in which players leave.
NextDrop ==
  \/ CreateRoom(1, 2, 2)
  \/ \E s \in ScoreSockets : Turn(s) /\ sock[s] = Fresh /\ JoinRoom(s, RoomCode, FALSE)
  \/ room.state = "lobby" /\ StartGame(1, 0, 0, Keys(room.players))
  \/ \E s \in ScoreSockets : Guess(s, room.currentWord)
  \/ \E s \in ScoreSockets : SkipWord(s)
  \/ \E s \in ScoreSockets : Disconnect(s)
  \/ Tick
  \/ HintCheck
  \/ \E kind \in TimeoutKinds, pick \in Catalog : TimeoutFires(kind, pick)

SpecDrop == InitWith(ScoreSockets) /\ [][NextDrop]_vars

\* SpecTimers: games of one round between two players; every event and
\* callback that starts, ends or abandons a turn, in any order, the host
\* starting again at any time. The shuffle of lines 423-426 is taken to leave
\* the joining order; Spec takes every order.
NextTimers ==
  \/ CreateRoom(1, 1, 2)
  \/ \E s \in HintSockets : Turn(s) /\ sock[s] = Fresh /\ JoinRoom(s, RoomCode, FALSE)
  \/ \E s \in HintSockets : StartGame(s, 0, 0, Keys(room.players))
  \/ \E s \in HintSockets : Guess(s, room.currentWord)
  \/ \E s \in HintSockets : SkipWord(s)
  \/ \E s \in HintSockets : Disconnect(s)
  \/ Tick
  \/ HintCheck
  \/ \E kind \in TimeoutKinds, pick \in Catalog : TimeoutFires(kind, pick)

SpecTimers == InitWith(HintSockets) /\ [][NextTimers]_vars

\* ----------------------------------------------------------------- claims
Emitted(w, name) == \E i \in 1..Len(w.out) : w.out[i].event = name
\* socket s is connected and is a player of the registered room
PlaysHere(s) ==
  /\ sock[s].connected
  /\ sock[s].currentRoom \in rooms
  /\ ~sock[s].isSpectator
  /\ Has(room.players, s)
CurrentDrawer == At(room.playerOrder, room.currentDrawerIndex)
Disconnected(s) == OnDisconnect(World, sock[s], s, rooms)

\* C1: when the active drawer of an active turn disconnects, the handling of
\* that disconnect ends the turn: turnActive is false, both intervals are
\* cancelled and turn_end is broadcast with wasGuessed = false.
C1_DrawerDisconnectEndsTurn ==
  \A s \in DOMAIN sock :
    (PlaysHere(s) /\ room.turnActive /\ CurrentDrawer = s)
    => LET w == Disconnected(s).w
       IN /\ ~w.room.turnActive
          /\ ~w.room.timer
          /\ ~w.room.hintInterval
          /\ \E i \in 1..Len(w.out) :
               w.out[i] = [event |-> "turn_end", word |-> room.currentWord,
                           wasGuessed |-> FALSE]

\* C2: when a player's disconnect leaves fewer than 2 players while the state
\* is playing, the state becomes finished, and no deferred callback pending
\* at that moment starts a turn or brings the state back to playing.
C2_DropBelowTwoEndsGame ==
  \A s \in DOMAIN sock :
    (PlaysHere(s) /\ room.state = "playing" /\ Len(Disconnected(s).w.room.players) < 2)
    => LET w == Disconnected(s).w
       IN /\ w.room.state = "finished"
          /\ \A kind \in TimeoutKinds, pick \in Catalog :
               (w.timeouts[kind] > 0 /\ PickOk(w.room, pick))
               => LET after == OnTimeout([w EXCEPT !.timeouts[kind] = @ - 1, !.out = <<>>],
                                         kind, pick)
                  IN /\ after.room.state = "finished"
                     /\ ~Emitted(after, "turn_start")
                     /\ (after.room.turnActive => w.room.turnActive)

\* C3: during a turn the correct guessers are at most the players other than
\* the drawer, and the current drawer is not one of them.
C3_GuessersExcludeDrawer ==
  (Registered /\ room.turnActive)
  => /\ Cardinality(room.correctGuessers) <= Len(room.players) - 1
     /\ CurrentDrawer \notin room.correctGuessers

\* C4: within one game startTurn selects a word that was already selected in
\* that game only when every word of the catalog has been selected in it.
C4_NoEarlyWordReuse ==
  \A kind \in TimeoutKinds, pick \in Catalog :
    (timeouts[kind] > 0 /\ PickOk(room, pick))
    => LET w == OnTimeout([World EXCEPT !.timeouts[kind] = @ - 1], kind, pick)
       IN (Emitted(w, "turn_start") /\ pick \in words) => words = Catalog

\* round(num / den), den > 0, as the integer nearest to num / den (halves up)
IsRounded(p, num, den) == 2 * den * p <= 2 * num + den /\ 2 * num + den < 2 * den * (p + 1)

\* C5: an accepted correct guess of rank r with t = timeRemaining /
\* timePerTurn adds exactly round((200 + 300t) * max(0, 1 - 0.15(r - 1))) to
\* the guesser's score and exactly round(50 + 100t) to the drawer's.
C5_ScoreFormula ==
  \A s \in DOMAIN sock :
    LET w == OnGuess(World, sock[s], s, rooms, room.currentWord).w
        r == Cardinality(room.correctGuessers) + 1
        tr == room.timeRemaining
        tpt == room.timePerTurn
    IN (sock[s].connected /\ Emitted(w, "correct_guess"))
       => /\ IsRounded(ScoreOf(w.room.players, s) - ScoreOf(room.players, s),
                       (200 * tpt + 300 * tr) * Max(0, 100 - 15 * (r - 1)), 100 * tpt)
          /\ Has(room.players, CurrentDrawer)
             => IsRounded(ScoreOf(w.room.players, CurrentDrawer)
                          - ScoreOf(room.players, CurrentDrawer),
                          50 * tpt + 100 * tr, tpt)

\* the elapsed time the latest run of the hint check has seen
Checked ==
  (turn.timePerTurn - room.timeRemaining) - (IF turn.hintPending THEN 1 ELSE 0)
\* the tiers the claim says are revealed for a word of L letters once the
\* hint check has run at elapsed time e of a turn of T seconds
TiersDue(L, T, e) ==
  (IF L > 3 /\ 2 * e >= T THEN 1 ELSE 0) + (IF L > 5 /\ 4 * e >= 3 * T THEN 1 ELSE 0)

\* C6: during a turn that began with timePerTurn T, hintsRevealed is 0 until
\* a hint check runs at elapsed time (T - timeRemaining) >= T/2, is 1 from
\* that check on exactly when the word has more than 3 non-space characters,
\* is 2 from the check at elapsed time >= 3T/4 on exactly when it has more
\* than 5, and is never more than 2 (so it never decreases).
C6_HintSchedule ==
  (room.turnActive /\ room.hintInterval)
  => room.hintsRevealed
       = TiersDue(WordLen(room.currentWord), turn.timePerTurn, Checked)
C6_Witness ==
  /\ room.turnActive /\ room.hintInterval /\ ~turn.hintPending
  /\ room.currentWord = WORD_LIST[2]
  /\ turn.timePerTurn = 40
  /\ room.timeRemaining = 10
  /\ room.hintsRevealed = 2

\* C7: a registered room with at least one player has a host who is one of
\* its players.
C7_HostIsPlayer ==
  (Registered /\ Len(room.players) >= 1) => Has(room.players, room.hostId)

\* C8: no registered room has zero players and zero spectators.
C8_EmptyRoomDeleted ==
  ~(Registered /\ Len(room.players) = 0 /\ room.spectators = {})

\* C9: once the state is finished no client event (start_game, guess,
\* skip_word, join_room, disconnect) changes it or starts a turn.
C9_FinishedIsTerminal ==
  (Registered /\ room.state = "finished")
  => \A s \in DOMAIN sock :
       sock[s].connected
       => LET Stays(res) == res.w.room.state = "finished" /\ ~Emitted(res.w, "turn_start")
          IN /\ \A n \in StartRounds, t \in StartTimes, order \in Shuffles :
                  Stays(OnStartGame(World, sock[s], s, rooms, n, t, order))
             /\ \A message \in GuessTexts : Stays(OnGuess(World, sock[s], s, rooms, message))
             /\ Stays(OnSkipWord(World, sock[s], s, rooms))
             /\ \A asSpectator \in BOOLEAN :
                  Stays(OnJoinRoom(World, sock[s], s, rooms, RoomCode, asSpectator))
             /\ Stays(Disconnected(s))

\* C10: join_room as a player is answered with error_message and leaves the
\* Roster unchanged when the code is unknown, the state is not lobby or the
\* room has 10 players; no room has more than 10 players; the set of players
\* does not grow once the state has left lobby.
C10_JoinRejected ==
  \A s \in DOMAIN sock, code \in {RoomCode, OtherCode} :
    (sock[s].connected
     /\ (code \notin rooms \/ room.state # "lobby" \/ Len(room.players) >= 10))
    => LET w == OnJoinRoom(World, sock[s], s, rooms, code, FALSE).w
       IN /\ Len(w.out) = 1
          /\ w.out[1].event = "error_message"
          /\ w.out[1].to = s
          /\ w.room.players = room.players
\* C10 as one formula: every rejected join is answered as above, no room has
\* more than 10 players, and once the state is not lobby no step adds a
\* player.
C10_JoinGuarded ==
  /\ [](C10_JoinRejected /\ Len(room.players) <= 10)
  /\ [][room.state # "lobby" => KeySet(room.players') \subseteq KeySet(room.players)]_vars
C10_Witness ==
  /\ Registered
  /\ Len(room.players) = 10
  /\ room.state = "lobby"
  /\ \E s \in DOMAIN sock : sock[s] = Fresh

\* C11: a guess sent while no turn is active, or by the current drawer, or by
\* a player already in correctGuessers, or by a spectator, leaves the room
\* state, the timers and the pending callbacks unchanged and emits nothing.
C11_RejectedGuessNoEffect ==
  \A s \in DOMAIN sock, message \in GuessTexts :
    (/\ sock[s].connected
     /\ sock[s].currentRoom \in rooms
     /\ \/ ~room.turnActive
        \/ s = CurrentDrawer
        \/ s \in room.correctGuessers
        \/ sock[s].isSpectator)
    => OnGuess(World, sock[s], s, rooms, message).w = World

\* C12: while the state is playing, 0 <= currentDrawerIndex < the length of
\* playerOrder.
C12_DrawerIndexInRange ==
  (Registered /\ room.state = "playing")
  => (0 <= room.currentDrawerIndex /\ room.currentDrawerIndex < Len(room.playerOrder))

\* the live countdown intervals and the live hint intervals of the room
LiveTimers == (IF room.timer THEN 1 ELSE 0) + turn.lostTimers
LiveHints == (IF room.hintInterval THEN 1 ELSE 0) + turn.lostHints

\* C13: the room has at most one live countdown interval and at most one
\* live hint interval, and none of either while turnActive is false or once
\* the room has been removed from the registry.
C13_TimersAtMostOne ==
  /\ LiveTimers <= 1
  /\ LiveHints <= 1
  /\ (~room.turnActive \/ ~Registered) => (LiveTimers = 0 /\ LiveHints = 0)
\* the last player left in the middle of a turn and the room was removed
C13_Witness ==
  /\ room.code # ""
  /\ ~Registered
  /\ room.turnActive

\* C14: a deferred callback starts a turn (turn_start is broadcast) only in a
\* state where turnActive is false.
C14_TurnsDoNotOverlap ==
  \A kind \in TimeoutKinds, pick \in Catalog :
    (timeouts[kind] > 0 /\ PickOk(room, pick))
    => LET w == OnTimeout([World EXCEPT !.timeouts[kind] = @ - 1], kind, pick)
       IN Emitted(w, "turn_start") => ~room.turnActive

\* C15: while the state is playing, 3 <= totalRounds <= 30 and
\* 15 <= timePerTurn <= 90.
C15_SettingsClamped ==
  (Registered /\ room.state = "playing")
  => /\ MinRounds <= room.totalRounds /\ room.totalRounds <= MaxRounds
     /\ MinTime <= room.timePerTurn /\ room.timePerTurn <= MaxTime

\* C16: whenever a correct guess is scored, 0 <= timeRemaining <= timePerTurn,
\* the guesser's award is in [0, 500] and the drawer's award in [50, 150].
C16_AwardsInRange ==
  \A s \in DOMAIN sock :
    LET w == OnGuess(World, sock[s], s, rooms, room.currentWord).w
        guesserPoints == ScoreOf(w.room.players, s) - ScoreOf(room.players, s)
        drawerPoints == ScoreOf(w.room.players, CurrentDrawer)
                        - ScoreOf(room.players, CurrentDrawer)
    IN (sock[s].connected /\ Emitted(w, "correct_guess"))
       => /\ 0 <= room.timeRemaining /\ room.timeRemaining <= room.timePerTurn
          /\ 0 <= guesserPoints /\ guesserPoints <= 500
          /\ Has(room.players, CurrentDrawer) => (50 <= drawerPoints /\ drawerPoints <= 150)

\* the handler's result w has scheduled exactly one next-turn start, `delay`
\* milliseconds ahead
ScheduledOnce(w, delay) ==
  \E kind \in {"next3", "next5"} :
    /\ DelayOf(kind) = delay
    /\ w.timeouts = [timeouts EXCEPT ![kind] = @ + 1]
\* in w every player other than the drawer is in correctGuessers
EveryoneGuessed(w) ==
  \A p \in KeySet(w.room.players) \ {At(w.room.playerOrder, w.room.currentDrawerIndex)} :
    p \in w.room.correctGuessers

\* C17: every event that ends a turn schedules exactly one deferred next-turn
\* start: 3 seconds ahead if the turn ended as not guessed (skip, timeout,
\* drawer gone) or every non-drawer player has guessed, 5 seconds ahead if it
\* ended as guessed while some non-drawer player had not guessed; a deferred
\* next-turn callback that finds the state finished or lobby starts no turn.
C17_NextTurnDelay ==
  /\ \A s \in DOMAIN sock :
       sock[s].connected
       => /\ LET w == OnGuess(World, sock[s], s, rooms, room.currentWord).w
             IN Emitted(w, "turn_end")
                => ScheduledOnce(w, IF EveryoneGuessed(w) THEN 3000 ELSE 5000)
          /\ LET w == OnSkipWord(World, sock[s], s, rooms).w
             IN Emitted(w, "turn_end") => ScheduledOnce(w, 3000)
          /\ LET w == Disconnected(s).w
             IN Emitted(w, "turn_end") => ScheduledOnce(w, 3000)
  /\ (room.timer /\ ~turn.hintPending)
     => LET w == OnTick(World)
        IN Emitted(w, "turn_end") => ScheduledOnce(w, 3000)
  /\ \A kind \in {"next3", "next5"}, pick \in Catalog :
       (timeouts[kind] > 0 /\ PickOk(room, pick) /\ room.state \in {"finished", "lobby"})
       => LET w == OnTimeout([World EXCEPT !.timeouts[kind] = @ - 1], kind, pick)
          IN ~Emitted(w, "turn_start") /\ w.room = room

\* the drawer startTurn would resolve from the current state is not a player
NextDrawerMissing ==
  LET next == room.currentDrawerIndex + 1
      idx == IF next >= Len(room.playerOrder) THEN 0 ELSE next
  IN ~Has(room.players, At(room.playerOrder, idx))

\* C18: a deferred callback that calls startTurn where the resolved drawer is
\* not in the Roster (playerOrder empty included) makes at most
\* totalRounds + 1 calls of startTurn, starts no turn (no turn_start,
\* turnActive not set, no interval created) and leaves the state finished.
C18_MissingDrawerEndsGame ==
  \A kind \in TimeoutKinds, pick \in Catalog :
    (/\ timeouts[kind] > 0
     /\ PickOk(room, pick)
     /\ kind = "first" \/ room.state \notin {"finished", "lobby"}
     /\ NextDrawerMissing)
    => LET w == OnTimeout([World EXCEPT !.timeouts[kind] = @ - 1], kind, pick)
       IN /\ w.room.roundNumber - room.roundNumber <= room.totalRounds + 1
          /\ ~Emitted(w, "turn_start")
          /\ w.room.turnActive = room.turnActive
          /\ ~w.room.timer /\ ~w.room.hintInterval
          /\ w.turn.lostTimers = 0 /\ w.turn.lostHints = 0
          /\ w.room.state = "finished"
\* every player left before the first turn began; its callback is pending
C18_Witness ==
  /\ timeouts["first"] = 1
  /\ room.playerOrder = <<>>
  /\ room.code # ""
  /\ NextDrawerMissing

\* C19: while a turn is running and the player who was sent the word
\* (your_word) is still in the room, that player is playerOrder[
\* currentDrawerIndex], is not in correctGuessers, and no guess of theirs is
\* scored.
C19_DrawerStaysDrawer ==
  (Registered /\ room.turnActive /\ room.timer /\ Has(room.players, turn.drawerId))
  => /\ CurrentDrawer = turn.drawerId
     /\ turn.drawerId \notin room.correctGuessers
     /\ \A message \in GuessTexts :
          sock[turn.drawerId].connected
          => ~Emitted(OnGuess(World, sock[turn.drawerId], turn.drawerId, rooms, message).w,
                      "correct_guess")

\* the handler's result w changes no score and emits no correct_guess and no
\* turn_end
Quiet(w) ==
  /\ \A p \in KeySet(room.players) \cap KeySet(w.room.players) :
       ScoreOf(w.room.players, p) = ScoreOf(room.players, p)
  /\ ~Emitted(w, "correct_guess")
  /\ ~Emitted(w, "turn_end")

\* C20: once the state is finished (game_over has been broadcast), no guess,
\* skip_word, disconnect, interval callback or deferred callback changes a
\* score or broadcasts correct_guess or turn_end.
C20_NoScoringAfterGameOver ==
  (Registered /\ room.state = "finished")
  => /\ \A s \in DOMAIN sock :
          sock[s].connected
          => /\ \A message \in GuessTexts : Quiet(OnGuess(World, sock[s], s, rooms, message).w)
             /\ Quiet(OnSkipWord(World, sock[s], s, rooms).w)
             /\ Quiet(Disconnected(s).w)
     /\ (room.timer \/ turn.lostTimers > 0) => Quiet(OnTick(World))
     /\ \A kind \in TimeoutKinds, pick \in Catalog :
          (timeouts[kind] > 0 /\ PickOk(room, pick))
          => Quiet(OnTimeout([World EXCEPT !.timeouts[kind] = @ - 1], kind, pick))

====
